---- MODULE Spec2Model ----
(***************************************************************************)
(* Model of the vinyl roll calculator (components/VinylRemainingApp.tsx):  *)
(* the working inputs, the memoised length calculation, the thickness      *)
(* presets, the saved-roll history and the localStorage helpers.           *)
(*                                                                         *)
(* Numbers.  A JavaScript number is modelled as a pair <<n, d>>: for       *)
(* d > 0 the exact rational n/d in lowest terms, <<1,0>> = +Infinity,      *)
(* <<-1,0>> = -Infinity and <<0,0>> = NaN.  Arithmetic is exact rational   *)
(* arithmetic: the binary rounding of float64, its overflow/underflow and  *)
(* the sign of zero are not modelled.                                      *)
(***************************************************************************)
EXTENDS Integers, Sequences, FiniteSets, TLC

\* ------------------------------------------------------------------------
\* Numbers
\* ------------------------------------------------------------------------
Abs(x) == IF x < 0 THEN -x ELSE x

Sgn(x) == IF x > 0 THEN 1 ELSE IF x < 0 THEN -1 ELSE 0

RECURSIVE Gcd(_, _)
Gcd(a, b) == IF b = 0 THEN a ELSE Gcd(b, a % b)

RECURSIVE Pow10(_)
Pow10(d) == IF d = 0 THEN 1 ELSE 10 * Pow10(d - 1)

NaN == <<0, 0>>

PosInf == <<1, 0>>

NegInf == <<-1, 0>>

\* n/d brought to lowest terms with a positive denominator
Num(n, d) ==
    IF d = 0 THEN <<Sgn(n), 0>>
    ELSE LET g == Gcd(Abs(n), Abs(d))
             s == IF d < 0 THEN -1 ELSE 1
         IN  <<(s * n) \div g, (s * d) \div g>>

Whole(n) == <<n, 1>>

\* the decimal literal n / 10^k
Dec(n, k) == Num(n, Pow10(k))

IsFinite(x) == x[2] # 0

IsNaN(x) == x = NaN

Neg(x) == <<-x[1], x[2]>>

\* x > y as JavaScript evaluates it: false as soon as one side is NaN
Gt(x, y) ==
    IF IsNaN(x) \/ IsNaN(y) THEN FALSE
    ELSE IF IsFinite(x) /\ IsFinite(y)
    THEN LET g == Gcd(x[2], y[2])
         IN  x[1] * (y[2] \div g) > y[1] * (x[2] \div g)
    ELSE (IF IsFinite(x) THEN 0 ELSE x[1]) > (IF IsFinite(y) THEN 0 ELSE y[1])

Mul(x, y) ==
    IF IsFinite(x) /\ IsFinite(y)
    THEN LET g1 == Gcd(Abs(x[1]), y[2])
             g2 == Gcd(Abs(y[1]), x[2])
         IN  Num((x[1] \div g1) * (y[1] \div g2), (x[2] \div g2) * (y[2] \div g1))
    ELSE <<Sgn(x[1]) * Sgn(y[1]), 0>>

Sub(x, y) ==
    IF IsNaN(x) \/ IsNaN(y) THEN NaN
    ELSE IF IsFinite(x) /\ IsFinite(y)
    THEN LET g == Gcd(x[2], y[2])
         IN  Num(x[1] * (y[2] \div g) - y[1] * (x[2] \div g), (x[2] \div g) * y[2])
    ELSE IF IsFinite(y) THEN x
    ELSE IF IsFinite(x) THEN Neg(y)
    ELSE IF x = y THEN NaN ELSE x

Inv(x) == IF x[1] < 0 THEN <<-x[2], -x[1]>> ELSE <<x[2], x[1]>>

Div(x, y) == Mul(x, Inv(y))

\* Math.round: the nearest integer, a tie going towards +Infinity
MathRound(x) == (2 * x[1] + x[2]) \div (2 * x[2])

\* ------------------------------------------------------------------------
\* Tiny utilities
\* ------------------------------------------------------------------------
IN_PER_MM == <<5, 127>>

MM_PER_IN == <<127, 5>>

round(v, d) ==
    LET p == Whole(Pow10(d))
        x == Mul(IF IsFinite(v) THEN v ELSE Whole(0), p)
    IN  Div(Whole(MathRound(x)), p)

toInches(v, u) == IF u = "mm" THEN Mul(v, IN_PER_MM) ELSE v

toMM(v, u) == IF u = "in" THEN Mul(v, MM_PER_IN) ELSE v

\* Strings are sequences of one-character strings; a non-ASCII character is
\* written by its name in brackets.
Digits == <<"0", "1", "2", "3", "4", "5", "6", "7", "8", "9">>

RECURSIVE NatStr(_)
NatStr(n) == IF n < 10 THEN <<Digits[n + 1]>>
             ELSE NatStr(n \div 10) \o <<Digits[(n % 10) + 1]>>

RECURSIVE PadLeft(_, _)
PadLeft(s, k) == IF Len(s) >= k THEN s ELSE PadLeft(<<"0">> \o s, k)

RECURSIVE StripZeros(_)
StripZeros(s) == IF s # <<>> /\ s[Len(s)] = "0"
                 THEN StripZeros(SubSeq(s, 1, Len(s) - 1)) ELSE s

\* Intl.NumberFormat(undefined, {maximumFractionDigits: d}).format(v) in an
\* en-US locale, for |v| < 1000 (no grouping separator): v rounded to d
\* decimals, a tie away from zero, trailing zeros dropped.
fmt(v, d) ==
    IF IsNaN(v) THEN <<"N", "a", "N">>
    ELSE IF ~IsFinite(v) THEN (IF v[1] < 0 THEN <<"-">> ELSE <<>>) \o <<"[infinity]">>
    ELSE LET a == <<Abs(v[1]), v[2]>>
             m == MathRound(Mul(a, Whole(Pow10(d))))
             ip == NatStr(m \div Pow10(d))
             fp == StripZeros(PadLeft(NatStr(m % Pow10(d)), d))
         IN  (IF v[1] < 0 /\ m # 0 THEN <<"-">> ELSE <<>>)
             \o ip \o (IF fp = <<>> THEN <<>> ELSE <<".">> \o fp)

IsSpace(c) == c \in {" ", "\t", "\n"}

RECURSIVE TrimStart(_)
TrimStart(s) == IF s # <<>> /\ IsSpace(s[1]) THEN TrimStart(Tail(s)) ELSE s

RECURSIVE TrimEnd(_)
TrimEnd(s) == IF s # <<>> /\ IsSpace(s[Len(s)])
              THEN TrimEnd(SubSeq(s, 1, Len(s) - 1)) ELSE s

Trim(s) == TrimEnd(TrimStart(s))

UpperLetters == <<"A", "B", "C", "D", "E", "F", "G", "H", "I", "J", "K", "L", "M",
                  "N", "O", "P", "Q", "R", "S", "T", "U", "V", "W", "X", "Y", "Z">>

LowerLetters == <<"a", "b", "c", "d", "e", "f", "g", "h", "i", "j", "k", "l", "m",
                  "n", "o", "p", "q", "r", "s", "t", "u", "v", "w", "x", "y", "z">>

\* String.prototype.toLowerCase
toLowerCase(s) ==
    [k \in 1..Len(s) |->
        IF \E j \in 1..Len(UpperLetters) : UpperLetters[j] = s[k]
        THEN LowerLetters[CHOOSE j \in 1..Len(UpperLetters) : UpperLetters[j] = s[k]]
        ELSE s[k]]

\* String.prototype.includes
includes(s, q) ==
    \E i \in 0..(Len(s) - Len(q)) : SubSeq(s, i + 1, i + Len(q)) = q

RECURSIVE FracDigits(_, _, _)
\* the first k decimals of r/d (0 <= r < d), stopping where they end
FracDigits(r, d, k) ==
    IF r = 0 \/ k = 0 THEN <<>>
    ELSE <<Digits[((r * 10) \div d) + 1]>> \o FracDigits((r * 10) % d, d, k - 1)

\* String(x) of a number: the shortest decimal text, for 1e-6 <= |x| < 1e21
\* or x = 0, the names of the three non-finite values, and "null" for a
\* null read back from JSON (written with a negative denominator)
String(x) ==
    IF x[2] < 0 THEN <<"n", "u", "l", "l">>
    ELSE IF IsNaN(x) THEN <<"N", "a", "N">>
    ELSE IF ~IsFinite(x)
    THEN (IF x[1] < 0 THEN <<"-">> ELSE <<>>)
         \o <<"I", "n", "f", "i", "n", "i", "t", "y">>
    ELSE LET a == Abs(x[1])
             fp == FracDigits(a % x[2], x[2], 17)
         IN  (IF x[1] < 0 THEN <<"-">> ELSE <<>>)
             \o NatStr(a \div x[2])
             \o (IF fp = <<>> THEN <<>> ELSE <<".">> \o fp)

RECURSIVE join(_, _)
\* Array.prototype.join
join(parts, sep) ==
    IF parts = <<>> THEN <<>>
    ELSE IF Len(parts) = 1 THEN parts[1]
    ELSE parts[1] \o sep \o join(Tail(parts), sep)

RECURSIVE replaceAllQuotes(_)
\* s.replaceAll('"', '""')
replaceAllQuotes(s) ==
    IF s = <<>> THEN <<>>
    ELSE (IF s[1] = "\"" THEN <<"\"", "\"">> ELSE <<s[1]>>)
         \o replaceAllQuotes(Tail(s))

DEFAULT_PRESETS ==
    << [name |-> <<"C", "a", "l", "e", "n", "d", "a", "r", "e", "d", " ", "3", " ", "m", "i", "l">>,
        thicknessIn |-> Dec(3, 3)],
       [name |-> <<"C", "a", "s", "t", " ", "2", " ", "m", "i", "l">>,
        thicknessIn |-> Dec(2, 3)],
       [name |-> <<"L", "a", "m", "i", "n", "a", "t", "e", " ", "1", ".", "5", " ", "m", "i", "l">>,
        thicknessIn |-> Dec(15, 4)],
       [name |-> <<"1", "0", "0", " ", "[mu]", "m", " ", "f", "i", "l", "m">>,
        thicknessIn |-> Mul(Dec(1, 1), IN_PER_MM)] >>

THEME_MODES == <<"light", "auto", "dark">>

\* ------------------------------------------------------------------------
\* Lengths.  A length is too wide for an exact fraction of machine integers,
\* so the four lengths of a CalcResult are kept in fixed point:
\* [kind, sign, limbs] with limbs of three decimal digits, least significant
\* first, the first FracLimbs of them after the decimal point.  A division
\* cuts the result after its 18th decimal.
\* ------------------------------------------------------------------------
Limb == Pow10(3)

\* Math.PI = 3.141592653589793116
PiLimbs == <<116, 793, 589, 653, 592, 141, 3>>

FracLimbs == Len(PiLimbs) - 1

RECURSIVE Norm(_, _)
Norm(s, c) ==
    IF s = <<>>
    THEN (IF c = 0 THEN <<>> ELSE <<c % Limb>> \o Norm(<<>>, c \div Limb))
    ELSE <<(s[1] + c) % Limb>> \o Norm(Tail(s), (s[1] + c) \div Limb)

RECURSIVE Strip(_)
Strip(s) == IF s # <<>> /\ s[Len(s)] = 0
            THEN Strip(SubSeq(s, 1, Len(s) - 1)) ELSE s

RECURSIVE LimbsVal(_)
LimbsVal(s) == IF s = <<>> THEN 0 ELSE s[1] + Limb * LimbsVal(Tail(s))

LimbsMul(s, m) == Strip(Norm([k \in 1..Len(s) |-> s[k] * m], 0))

RECURSIVE LimbsDivRem(_, _)
\* <<quotient, remainder>> of the limbs s by the integer d
LimbsDivRem(s, d) ==
    IF s = <<>> THEN <<<<>>, 0>>
    ELSE LET hi == LimbsDivRem(Tail(s), d)
             cur == hi[2] * Limb + s[1]
         IN  <<<<cur \div d>> \o hi[1], cur % d>>

LimbsDiv(s, d) == Strip(LimbsDivRem(s, d)[1])

Fix(sign, limbs) ==
    [kind |-> "finite", sign |-> IF limbs = <<>> THEN 0 ELSE sign,
     limbs |-> limbs]

FixNaN == [kind |-> "nan", sign |-> 0, limbs |-> <<>>]

FixInf(sign) == [kind |-> "inf", sign |-> sign, limbs |-> <<>>]

\* x * r for a fraction r (r = 1/0 when the code divides by zero)
FixTimes(x, r) ==
    IF ~IsFinite(r) THEN
        (IF IsNaN(r) \/ x.kind = "nan" \/ x.sign = 0 THEN FixNaN
         ELSE FixInf(x.sign * r[1]))
    ELSE IF x.kind # "finite" THEN
        (IF r[1] = 0 \/ x.kind = "nan" THEN FixNaN
         ELSE FixInf(x.sign * Sgn(r[1])))
    ELSE Fix(x.sign * Sgn(r[1]), LimbsDiv(LimbsMul(x.limbs, Abs(r[1])), r[2]))

FixPi == Fix(1, PiLimbs)

FixPositive(x) == x.kind # "nan" /\ x.sign > 0

FixIsFinite(x) == x.kind = "finite"

\* round(x, d) of a length: Math.round(x * 10^d) / 10^d
roundFix(x, d) ==
    IF x.kind # "finite" THEN <<0, 1>>
    ELSE LET y == LimbsMul(x.limbs, Pow10(d))
             at(k) == IF k <= Len(y) THEN y[k] ELSE 0
             whole == LimbsVal(SubSeq(y, FracLimbs + 1, Len(y)))
             half == Limb \div 2
             above == \/ at(FracLimbs) > half
                      \/ /\ at(FracLimbs) = half
                         /\ \E k \in 1..(FracLimbs - 1) : at(k) # 0
             tie == at(FracLimbs) = half /\ ~above
             n == IF x.sign >= 0
                  THEN whole + (IF above \/ tie THEN 1 ELSE 0)
                  ELSE -(whole + (IF above THEN 1 ELSE 0))
         IN  Num(n, Pow10(d))

\* ------------------------------------------------------------------------
\* Calculation (always in inches internally)
\* ------------------------------------------------------------------------
CalcMessage == "Check that OD > ID and thickness > 0"

\* lengthFormula with the two squares exchanged
lengthFormulaSwapped(odIn, idIn, tIn) ==
    FixTimes(FixTimes(FixTimes(FixPi, Sub(idIn, odIn)), Sub(odIn, Neg(idIn))),
             Inv(Mul(Whole(4), tIn)))

\* Math.PI * (odIn * odIn - idIn * idIn) / (4 * tIn), the difference of the
\* squares taken as (odIn - idIn) * (odIn + idIn)
lengthFormula(odIn, idIn, tIn) ==
    IF IsFinite(odIn) /\ IsFinite(idIn) /\ IsFinite(tIn)
    THEN FixTimes(FixTimes(FixTimes(FixPi, Sub(odIn, idIn)),
                           Sub(odIn, Neg(idIn))),
                  Inv(Mul(Whole(4), tIn)))
    ELSE LET q == Div(Sub(Mul(odIn, odIn), Mul(idIn, idIn)),
                      Mul(Whole(4), tIn))
         IN  IF IsNaN(q) THEN FixNaN
             ELSE IF IsFinite(q) THEN Fix(0, <<>>)
             ELSE FixInf(q[1])

\* Calc accepting OD >= ID
CalcOdNotBelowId(o, i, t, u) ==
    LET odIn == toInches(o, u)
        idIn == toInches(i, u)
        tIn == toInches(t, u)
        lengthIn == lengthFormula(odIn, idIn, tIn)
    IN  IF Gt(idIn, odIn) \/ ~Gt(tIn, Whole(0))
        THEN [valid |-> FALSE, message |-> CalcMessage]
        ELSE [valid |-> TRUE,
              lengthIn |-> lengthIn,
              lengthFt |-> FixTimes(lengthIn, <<1, 12>>),
              lengthYd |-> FixTimes(lengthIn, <<1, 36>>),
              lengthM |-> FixTimes(lengthIn, Dec(254, 4))]

\* Calc without the thickness test
CalcNoThicknessTest(o, i, t, u) ==
    LET odIn == toInches(o, u)
        idIn == toInches(i, u)
        tIn == toInches(t, u)
        lengthIn == lengthFormula(odIn, idIn, tIn)
    IN  IF ~Gt(odIn, idIn)
        THEN [valid |-> FALSE, message |-> CalcMessage]
        ELSE [valid |-> TRUE,
              lengthIn |-> lengthIn,
              lengthFt |-> FixTimes(lengthIn, <<1, 12>>),
              lengthYd |-> FixTimes(lengthIn, <<1, 36>>),
              lengthM |-> FixTimes(lengthIn, Dec(254, 4))]

\* Calc taking the yards as a third of the inches
CalcYardsByThree(o, i, t, u) ==
    LET odIn == toInches(o, u)
        idIn == toInches(i, u)
        tIn == toInches(t, u)
        lengthIn == lengthFormula(odIn, idIn, tIn)
    IN  IF ~Gt(odIn, idIn) \/ ~Gt(tIn, Whole(0))
        THEN [valid |-> FALSE, message |-> CalcMessage]
        ELSE [valid |-> TRUE,
              lengthIn |-> lengthIn,
              lengthFt |-> FixTimes(lengthIn, <<1, 12>>),
              lengthYd |-> FixTimes(lengthIn, <<1, 3>>),
              lengthM |-> FixTimes(lengthIn, Dec(254, 4))]

Calc(o, i, t, u) ==
    LET odIn == toInches(o, u)
        idIn == toInches(i, u)
        tIn == toInches(t, u)
        lengthIn == lengthFormula(odIn, idIn, tIn)
    IN  IF ~Gt(odIn, idIn) \/ ~Gt(tIn, Whole(0))
        THEN [valid |-> FALSE, message |-> CalcMessage]
        ELSE [valid |-> TRUE,
              lengthIn |-> lengthIn,
              lengthFt |-> FixTimes(lengthIn, <<1, 12>>),
              lengthYd |-> FixTimes(lengthIn, <<1, 36>>),
              lengthM |-> FixTimes(lengthIn, Dec(254, 4))]

\* ------------------------------------------------------------------------
\* State
\* ------------------------------------------------------------------------
VARIABLES
    unit,        \* "in" | "mm"
    theme,       \* "light" | "dark" | "auto"
    od,          \* inputs in the CURRENT unit
    id,
    thickness,
    calc,        \* the memoised CalcResult of the last render
    presets,     \* sequence of [name, thicknessIn]
    savedRolls,  \* sequence of SavedRoll, most recent first
    logoUrl,     \* <<>> (null) or <<url>>
    storage,     \* window.localStorage: key -> [st, val]
    failing,     \* the keys whose setItem currently throws
    now,         \* Date.now()
    search,      \* the text of the search box
    download,    \* the text of the last file handed to the browser
    lastOp       \* history variable: the last handler that ran

vars == <<unit, theme, od, id, thickness, calc, presets, savedRolls, logoUrl,
          storage, failing, now, search, download, lastOp>>

Keys == {"unit", "theme", "od", "id", "thickness", "presets", "savedRolls",
         "logoUrl"}

Null == <<>>

Absent == [st |-> "absent", val |-> <<>>]

Corrupt == [st |-> "corrupt", val |-> <<>>]

Stored(v) == [st |-> "ok", val |-> <<v>>]

\* ------------------------------------------------------------------------
\* Local storage helpers
\* ------------------------------------------------------------------------
\* JSON.stringify of a number: a non-finite number is written as null.
\* (Arithmetic on a null read back from storage is not modelled.)
JsNull == <<0, -1>>

JsonNumber(x) == IF IsFinite(x) THEN x ELSE JsNull

JsonPresets(ps) ==
    [k \in 1..Len(ps) |->
        [name |-> ps[k].name, thicknessIn |-> JsonNumber(ps[k].thicknessIn)]]

JsonRolls(rs) ==
    [k \in 1..Len(rs) |->
        [name |-> rs[k].name, unit |-> rs[k].unit,
         od |-> JsonNumber(rs[k].od), id |-> JsonNumber(rs[k].id),
         thickness |-> JsonNumber(rs[k].thickness),
         savedAt |-> rs[k].savedAt,
         lengthIn |-> JsonNumber(rs[k].lengthIn),
         lengthFt |-> JsonNumber(rs[k].lengthFt),
         lengthM |-> JsonNumber(rs[k].lengthM),
         lengthYd |-> JsonNumber(rs[k].lengthYd)]]

Json(key, value) ==
    CASE key \in {"od", "id", "thickness"} -> JsonNumber(value)
      [] key = "presets" -> JsonPresets(value)
      [] key = "savedRolls" -> JsonRolls(value)
      [] OTHER -> value

\* store.get: the fallback when the storage cannot be read, the key is
\* absent or the text does not parse; the parsed value otherwise
StoreGet(st, avail, key, fallback) ==
    IF ~avail THEN fallback
    ELSE IF st[key].st = "ok" THEN st[key].val[1]
    ELSE fallback

\* store.set writing a key only while nothing is stored under it
StoreSetOnce(st, fail, key, value) ==
    IF key \in fail \/ st[key] # Absent THEN st
    ELSE [st EXCEPT ![key] = Stored(Json(key, value))]

\* store.set: a failing write leaves the stored text as it was
StoreSet(st, fail, key, value) ==
    IF key \in fail THEN st
    ELSE [st EXCEPT ![key] = Stored(Json(key, value))]

\* The persisted pieces of component state, by storage key
Cur == [unit |-> unit, theme |-> theme, od |-> od, id |-> id,
        thickness |-> thickness, presets |-> presets,
        savedRolls |-> savedRolls, logoUrl |-> logoUrl]

\* "Persist on change": one store.set per key whose state changed
Persist(st, fail, written, new) ==
    [k \in Keys |-> IF k \in written THEN StoreSet(st, fail, k, new[k])[k]
                    ELSE st[k]]

\* The state initialisers giving up every stored value as soon as one key
\* cannot be read
MountAllOrNothing(st, avail) ==
    LET ok == avail /\ \A k \in Keys : st[k].st = "ok"
        u == IF ok THEN st["unit"].val[1] ELSE "in"
    IN  IF ok THEN [k \in Keys |-> st[k].val[1]]
        ELSE [unit |-> u, theme |-> "auto", od |-> Whole(6),
              id |-> round(Mul(Whole(85), IN_PER_MM), 3),
              thickness |-> Dec(3, 3), presets |-> DEFAULT_PRESETS,
              savedRolls |-> <<>>, logoUrl |-> Null]

\* The state initialisers putting the built-in presets behind a stored list
MountMergingBuiltIns(st, avail) ==
    LET u == StoreGet(st, avail, "unit", "in")
        saved == StoreGet(st, avail, "id", Null)
    IN  [unit |-> u,
         theme |-> StoreGet(st, avail, "theme", "auto"),
         od |-> StoreGet(st, avail, "od", Whole(6)),
         id |-> IF saved # Null /\ saved # JsNull THEN saved
                ELSE IF u = "mm" THEN Whole(85)
                ELSE round(Mul(Whole(85), IN_PER_MM), 3),
         thickness |-> StoreGet(st, avail, "thickness",
                                IF u = "mm" THEN Dec(76, 3) ELSE Dec(3, 3)),
         presets |-> IF avail /\ st["presets"].st = "ok"
                     THEN st["presets"].val[1] \o DEFAULT_PRESETS
                     ELSE DEFAULT_PRESETS,
         savedRolls |-> StoreGet(st, avail, "savedRolls", <<>>),
         logoUrl |-> StoreGet(st, avail, "logoUrl", Null)]

\* The state initialisers of VinylRemainingApp
Mount(st, avail) ==
    LET u == StoreGet(st, avail, "unit", "in")
        saved == StoreGet(st, avail, "id", Null)
    IN  [unit |-> u,
         theme |-> StoreGet(st, avail, "theme", "auto"),
         od |-> StoreGet(st, avail, "od", Whole(6)),
         id |-> IF saved # Null /\ saved # JsNull THEN saved
                ELSE IF u = "mm" THEN Whole(85)
                ELSE round(Mul(Whole(85), IN_PER_MM), 3),
         thickness |-> StoreGet(st, avail, "thickness",
                                IF u = "mm" THEN Dec(76, 3) ELSE Dec(3, 3)),
         presets |-> StoreGet(st, avail, "presets", DEFAULT_PRESETS),
         savedRolls |-> StoreGet(st, avail, "savedRolls", <<>>),
         logoUrl |-> StoreGet(st, avail, "logoUrl", Null)]

\* ------------------------------------------------------------------------
\* Bounds and input domains
\* ------------------------------------------------------------------------
MaxRolls == 2

MaxPresets == 5

MaxTime == 1

\* Dimensions, in inches, the unit switch is asked to convert stay below this
MaxDim == 10

\* Keys whose stored text is damaged at the same time
MaxFaults == 1

EmptyStorage == [k \in Keys |-> Absent]

\* lastOp: the handler that ran last and the row or flag it was given
Op(name, i) == [op |-> name, i |-> i]

\* A render that drops the whole update when one of its writes fails
RenderRollbackOnFailure(new, arrays) ==
    LET written == {k \in Keys \ {"presets", "savedRolls"} : new[k] # Cur[k]}
                       \cup arrays
        kept == IF written \cap failing # {} THEN Cur ELSE new
    IN  /\ unit' = kept.unit
        /\ theme' = kept.theme
        /\ od' = kept.od
        /\ id' = kept.id
        /\ thickness' = kept.thickness
        /\ presets' = kept.presets
        /\ savedRolls' = kept.savedRolls
        /\ logoUrl' = kept.logoUrl
        /\ calc' = Calc(kept.od, kept.id, kept.thickness, kept.unit)
        /\ storage' = Persist(storage, failing, written, kept)

\* A render with the state `new`: the memo is recomputed when one of its
\* dependencies changed and the effects of the changed keys run.
\* setPresets/setSavedRolls always install a new array, so `arrays` names the collections a handler has set.
Render(new, arrays) ==
    /\ unit' = new.unit
    /\ theme' = new.theme
    /\ od' = new.od
    /\ id' = new.id
    /\ thickness' = new.thickness
    /\ presets' = new.presets
    /\ savedRolls' = new.savedRolls
    /\ logoUrl' = new.logoUrl
    /\ calc' = IF <<new.od, new.id, new.thickness, new.unit>>
                    = <<od, id, thickness, unit>>
               THEN calc
               ELSE Calc(new.od, new.id, new.thickness, new.unit)
    /\ storage' = Persist(storage, failing,
                          {k \in Keys \ {"presets", "savedRolls"} :
                              new[k] # Cur[k]} \cup arrays,
                          new)

InitWith(st, fail) ==
    LET m == Mount(st, TRUE)
    IN  /\ unit = m.unit
        /\ theme = m.theme
        /\ od = m.od
        /\ id = m.id
        /\ thickness = m.thickness
        /\ presets = m.presets
        /\ savedRolls = m.savedRolls
        /\ logoUrl = m.logoUrl
        /\ calc = Calc(m.od, m.id, m.thickness, m.unit)
        /\ failing = fail
        /\ storage = Persist(st, fail, Keys, m)
        /\ now = 0
        /\ search = <<>>
        /\ download = <<>>
        /\ lastOp = [op |-> "start", i |-> 0]

\* Values typed into the OD / ID / thickness fields
TypedValues == {Whole(-2), Whole(-1), Whole(0), Whole(3), Whole(6)}

TypedThickness == {Whole(-1), Whole(0), Dec(3, 3)}

OdInputs == {Whole(3), Whole(6)}

IdInputs == {Whole(3)}

ThicknessInputs == {Whole(0), Dec(3, 3)}

NameInputs == {<<>>, <<"A">>}

PresetNameInputs == {<<>>, <<"P">>}

PresetValueInputs == {Whole(0), Dec(4, 3)}

\* Texts typed into the search box
QueryInputs == {<<>>, <<" ">>, <<"6">>, <<"A">>, <<" ", "a">>}

\* Names given to a saved roll, one with a comma and a double quote
QuotedNames == {<<>>, <<"a", ",", "\"">>}

\* Every kind of number addPreset can be handed
AnyPresetValues == {NaN, PosInf, NegInf, Whole(-1), Whole(0), Dec(4, 3)}

Units == {"in", "mm"}

FailSets == {{}, Keys}

\* ------------------------------------------------------------------------
\* Handlers
\* ------------------------------------------------------------------------
SetOd(v) ==
    /\ Render([Cur EXCEPT !.od = v], {})
    /\ lastOp' = Op("setOd", 0)
    /\ UNCHANGED <<failing, now, search, download>>

SetId(v) ==
    /\ Render([Cur EXCEPT !.id = v], {})
    /\ lastOp' = Op("setId", 0)
    /\ UNCHANGED <<failing, now, search, download>>

SetThickness(v) ==
    /\ Render([Cur EXCEPT !.thickness = v], {})
    /\ lastOp' = Op("setThickness", 0)
    /\ UNCHANGED <<failing, now, search, download>>

SetTheme(m) ==
    /\ Render([Cur EXCEPT !.theme = m], {})
    /\ lastOp' = Op("setTheme", 0)
    /\ UNCHANGED <<failing, now, search, download>>

\* toggleUnit converting the saved rolls to the new unit as well
toggleUnitWithHistory(nextUnit) ==
    IF nextUnit = unit THEN Cur
    ELSE LET conv(v, u, d) == IF u = nextUnit THEN v
                              ELSE IF nextUnit = "mm" THEN round(toMM(v, "in"), d)
                              ELSE round(toInches(v, "mm"), d)
             td == IF nextUnit = "mm" THEN 4 ELSE 5
         IN  [Cur EXCEPT !.od = conv(od, unit, 3),
                         !.id = conv(id, unit, 3),
                         !.thickness = conv(thickness, unit, td),
                         !.unit = nextUnit,
                         !.savedRolls =
                             [k \in 1..Len(savedRolls) |->
                                 [savedRolls[k] EXCEPT
                                     !.od = conv(savedRolls[k].od, savedRolls[k].unit, 3),
                                     !.id = conv(savedRolls[k].id, savedRolls[k].unit, 3),
                                     !.thickness = conv(savedRolls[k].thickness,
                                                        savedRolls[k].unit, td),
                                     !.unit = nextUnit]]]

\* toggleUnit keeping two decimals of OD and ID
toggleUnitTwoDecimals(nextUnit) ==
    IF nextUnit = unit THEN Cur
    ELSE IF nextUnit = "mm"
    THEN [Cur EXCEPT !.od = round(toMM(od, "in"), 2),
                     !.id = round(toMM(id, "in"), 2),
                     !.thickness = round(toMM(thickness, "in"), 4),
                     !.unit = nextUnit]
    ELSE [Cur EXCEPT !.od = round(toInches(od, "mm"), 2),
                     !.id = round(toInches(id, "mm"), 2),
                     !.thickness = round(toInches(thickness, "mm"), 5),
                     !.unit = nextUnit]

\* toggleUnit keeping three decimals of the thickness in both directions
toggleUnitThreeDecimals(nextUnit) ==
    IF nextUnit = unit THEN Cur
    ELSE IF nextUnit = "mm"
    THEN [Cur EXCEPT !.od = round(toMM(od, "in"), 3),
                     !.id = round(toMM(id, "in"), 3),
                     !.thickness = round(toMM(thickness, "in"), 3),
                     !.unit = nextUnit]
    ELSE [Cur EXCEPT !.od = round(toInches(od, "mm"), 3),
                     !.id = round(toInches(id, "mm"), 3),
                     !.thickness = round(toInches(thickness, "mm"), 3),
                     !.unit = nextUnit]

\* Convert on unit switch: the state toggleUnit(nextUnit) asks for
toggleUnit(nextUnit) ==
    IF nextUnit = unit THEN Cur
    ELSE IF nextUnit = "mm"
    THEN [Cur EXCEPT !.od = round(toMM(od, "in"), 3),
                     !.id = round(toMM(id, "in"), 3),
                     !.thickness = round(toMM(thickness, "in"), 4),
                     !.unit = nextUnit]
    ELSE [Cur EXCEPT !.od = round(toInches(od, "mm"), 3),
                     !.id = round(toInches(id, "mm"), 3),
                     !.thickness = round(toInches(thickness, "mm"), 5),
                     !.unit = nextUnit]

ToggleUnit(nextUnit) ==
    /\ \A x \in {od, id, thickness} : Gt(Whole(MaxDim), toInches(x, unit))
    /\ Render(toggleUnit(nextUnit), {})
    /\ lastOp' = Op("toggleUnit", IF nextUnit = unit THEN 0 ELSE 1)
    /\ UNCHANGED <<failing, now, search, download>>

UnitStr(u) == IF u = "mm" THEN <<"m", "m">> ELSE <<"i", "n">>

\* applyPreset rounding to 4 decimals in millimetres
applyPresetFourDecimals(p) ==
    round(IF unit = "mm" THEN Mul(p.thicknessIn, MM_PER_IN) ELSE p.thicknessIn,
          IF unit = "mm" THEN 4 ELSE 5)

\* applyPreset cutting the value after its last decimal instead of rounding
applyPresetTruncated(p) ==
    LET d == IF unit = "mm" THEN 3 ELSE 5
        v == IF unit = "mm" THEN Mul(p.thicknessIn, MM_PER_IN) ELSE p.thicknessIn
        x == Mul(IF IsFinite(v) THEN v ELSE Whole(0), Whole(Pow10(d)))
    IN  Num(x[1] \div x[2], Pow10(d))

applyPreset(p) ==
    round(IF unit = "mm" THEN Mul(p.thicknessIn, MM_PER_IN) ELSE p.thicknessIn,
          IF unit = "mm" THEN 3 ELSE 5)

ApplyPreset(k) ==
    /\ k \in 1..Len(presets)
    /\ Render([Cur EXCEPT !.thickness = applyPreset(presets[k])], {})
    /\ lastOp' = Op("applyPreset", k)
    /\ UNCHANGED <<failing, now, search, download>>

\* addPreset storing the value rounded to 3 decimals, as its name shows it
addPresetRounded(prev, name, tValue) ==
    LET tIn == toInches(tValue, unit)
    IN  IF IsNaN(tIn) \/ tIn = Whole(0) \/ Gt(Whole(0), tIn) THEN prev
        ELSE << [name |-> IF name # <<>> THEN name
                          ELSE fmt(IF unit = "mm" THEN Mul(tIn, Dec(254, 1))
                                   ELSE tIn, 3)
                               \o <<" ">> \o UnitStr(unit),
                 thicknessIn |-> round(tIn, 3)] >> \o prev

\* addPreset: the list after the call (unchanged when the value is refused)
addPreset(prev, name, tValue) ==
    LET tIn == toInches(tValue, unit)
    IN  IF IsNaN(tIn) \/ tIn = Whole(0) \/ Gt(Whole(0), tIn) THEN prev
        ELSE << [name |-> IF name # <<>> THEN name
                          ELSE fmt(IF unit = "mm" THEN Mul(tIn, Dec(254, 1))
                                   ELSE tIn, 3)
                               \o <<" ">> \o UnitStr(unit),
                 thicknessIn |-> tIn] >> \o prev

AddPreset(name, tValue) ==
    /\ Len(presets) < MaxPresets
    /\ LET next == addPreset(presets, name, tValue)
       IN  IF next = presets
           THEN UNCHANGED <<unit, theme, od, id, thickness, calc, presets,
                            savedRolls, logoUrl, storage>>
           ELSE Render([Cur EXCEPT !.presets = next], {"presets"})
    /\ lastOp' = Op("addPreset",
                    IF addPreset(presets, name, tValue) = presets THEN 0 ELSE 1)
    /\ UNCHANGED <<failing, now, search, download>>

\* removePreset done with prev.splice(idx, 1): a negative index counts from
\* the end of the list
removePresetSplice(prev, idx) ==
    LET at == IF idx < 0 THEN Len(prev) + idx ELSE idx
    IN  SelectSeq([k \in 1..Len(prev) |-> <<k - 1, prev[k]>>],
                  LAMBDA e : e[1] # at)

removePreset(prev, idx) ==
    SelectSeq([k \in 1..Len(prev) |-> <<k - 1, prev[k]>>],
              LAMBDA e : e[1] # idx)

RemovePreset(idx) ==
    /\ idx \in 0..(Len(presets) - 1)
    /\ LET kept == removePreset(presets, idx)
       IN  Render([Cur EXCEPT !.presets = [k \in 1..Len(kept) |-> kept[k][2]]],
                  {"presets"})
    /\ lastOp' = Op("removePreset", idx)
    /\ UNCHANGED <<failing, now, search, download>>

\* RollEntry taking the name as typed, without trimming it
RollEntryUntrimmed(name) ==
    [name |-> IF name # <<>> THEN name
              ELSE <<"R", "o", "l", "l", " ">> \o NatStr(Len(savedRolls) + 1),
     unit |-> unit,
     od |-> round(od, 3),
     id |-> round(id, 3),
     thickness |-> round(thickness, 5),
     savedAt |-> now,
     lengthIn |-> roundFix(calc.lengthIn, 2),
     lengthFt |-> roundFix(calc.lengthFt, 2),
     lengthM |-> roundFix(calc.lengthM, 2),
     lengthYd |-> roundFix(calc.lengthYd, 2)]

\* RollEntry storing the inputs as they are, without rounding them
RollEntryUnrounded(name) ==
    [name |-> IF Trim(name) # <<>> THEN Trim(name)
              ELSE <<"R", "o", "l", "l", " ">> \o NatStr(Len(savedRolls) + 1),
     unit |-> unit,
     od |-> od,
     id |-> id,
     thickness |-> thickness,
     savedAt |-> now,
     lengthIn |-> roundFix(calc.lengthIn, 2),
     lengthFt |-> roundFix(calc.lengthFt, 2),
     lengthM |-> roundFix(calc.lengthM, 2),
     lengthYd |-> roundFix(calc.lengthYd, 2)]

\* removePreset(idx) called with any index, inside the list or not
RemovePresetCall(idx) ==
    /\ LET kept == removePreset(presets, idx)
       IN  Render([Cur EXCEPT !.presets = [k \in 1..Len(kept) |-> kept[k][2]]],
                  {"presets"})
    /\ lastOp' = Op("removePreset", idx)
    /\ UNCHANGED <<failing, now, search, download>>

\* The SavedRoll saveRoll builds from the current render
RollEntry(name) ==
    [name |-> IF Trim(name) # <<>> THEN Trim(name)
              ELSE <<"R", "o", "l", "l", " ">> \o NatStr(Len(savedRolls) + 1),
     unit |-> unit,
     od |-> round(od, 3),
     id |-> round(id, 3),
     thickness |-> round(thickness, 5),
     savedAt |-> now,
     lengthIn |-> roundFix(calc.lengthIn, 2),
     lengthFt |-> roundFix(calc.lengthFt, 2),
     lengthM |-> roundFix(calc.lengthM, 2),
     lengthYd |-> roundFix(calc.lengthYd, 2)]

\* prependRoll putting the entry last
appendRoll(prev, entry) == prev \o <<entry>>

\* prev => [entry, ...prev]
prependRoll(prev, entry) == <<entry>> \o prev

\* SaveRoll without the `if (!calc.valid) return` guard: the lengths read
\* from an Invalid result are undefined, which round() turns into 0
SaveRollUnguarded(name) ==
    /\ Len(savedRolls) < MaxRolls
    /\ Render([Cur EXCEPT !.savedRolls =
                  prependRoll(savedRolls,
                      IF calc.valid THEN RollEntry(name)
                      ELSE [name |-> <<"R">>, unit |-> unit, od |-> round(od, 3),
                            id |-> round(id, 3),
                            thickness |-> round(thickness, 5),
                            savedAt |-> now,
                            lengthIn |-> Whole(0), lengthFt |-> Whole(0),
                            lengthM |-> Whole(0), lengthYd |-> Whole(0)])],
              {"savedRolls"})
    /\ lastOp' = Op("saveRoll", IF calc.valid THEN 1 ELSE 0)
    /\ UNCHANGED <<failing, now, search, download>>

SaveRoll(name) ==
    /\ Len(savedRolls) < MaxRolls
    /\ IF ~calc.valid
       THEN UNCHANGED <<unit, theme, od, id, thickness, calc, presets,
                        savedRolls, logoUrl, storage>>
       ELSE Render([Cur EXCEPT !.savedRolls =
                       prependRoll(savedRolls, RollEntry(name))],
                   {"savedRolls"})
    /\ lastOp' = Op("saveRoll", IF calc.valid THEN 1 ELSE 0)
    /\ UNCHANGED <<failing, now, search, download>>

\* "Clear all" doing nothing while the calculation is Invalid
ClearAllWhenValid ==
    /\ IF calc.valid
       THEN Render([Cur EXCEPT !.savedRolls = <<>>], {"savedRolls"})
       ELSE UNCHANGED <<unit, theme, od, id, thickness, calc, presets,
                        savedRolls, logoUrl, storage>>
    /\ lastOp' = Op("clearAll", Len(savedRolls))
    /\ UNCHANGED <<failing, now, search, download>>

\* "Clear all"
ClearAll ==
    /\ Render([Cur EXCEPT !.savedRolls = <<>>], {"savedRolls"})
    /\ lastOp' = Op("clearAll", Len(savedRolls))
    /\ UNCHANGED <<failing, now, search, download>>

\* "Use" leaving the inputs as the unit switch converted them when the roll
\* was saved in the other unit
UseRollConverted(k) ==
    /\ k \in 1..Len(savedRolls)
    /\ LET r == savedRolls[k]
       IN  Render(IF unit # r.unit THEN toggleUnit(r.unit)
                  ELSE [Cur EXCEPT !.od = r.od, !.id = r.id,
                                   !.thickness = r.thickness], {})
    /\ lastOp' = Op("useRoll", k)
    /\ UNCHANGED <<failing, now, search, download>>

\* "Use": load a saved roll respecting its unit
UseRoll(k) ==
    /\ k \in 1..Len(savedRolls)
    /\ LET r == savedRolls[k]
           t == IF unit # r.unit THEN toggleUnit(r.unit) ELSE Cur
       IN  Render([t EXCEPT !.od = r.od, !.id = r.id,
                            !.thickness = r.thickness], {})
    /\ lastOp' = Op("useRoll", k)
    /\ UNCHANGED <<failing, now, search, download>>

\* prev => prev.filter((sr) => sr.savedAt !== savedAt)
deleteRoll(prev, savedAt) == SelectSeq(prev, LAMBDA sr : sr.savedAt # savedAt)

SameSavedAt(rolls, at) == {j \in 1..Len(rolls) : rolls[j].savedAt = at}

\* "Delete" on row k of the table
DeleteRoll(k) ==
    /\ k \in 1..Len(savedRolls)
    /\ Render([Cur EXCEPT !.savedRolls =
                  deleteRoll(savedRolls, savedRolls[k].savedAt)],
              {"savedRolls"})
    /\ lastOp' = Op("deleteRoll", k)
    /\ UNCHANGED <<failing, now, search, download>>

\* ------------------------------------------------------------------------
\* Search and CSV export
\* ------------------------------------------------------------------------
\* The rows the table shows for the text q of the search box
\* filteredBy looking at the names only
filteredByName(q0, rolls) ==
    LET q == toLowerCase(Trim(q0))
    IN  IF q = <<>> THEN rolls
        ELSE SelectSeq(rolls, LAMBDA r : includes(toLowerCase(r.name), q))

filteredBy(q0, rolls) ==
    LET q == toLowerCase(Trim(q0))
    IN  IF q = <<>> THEN rolls
        ELSE SelectSeq(rolls, LAMBDA r :
                 \/ includes(toLowerCase(r.name), q)
                 \/ includes(String(r.od), q)
                 \/ includes(String(r.id), q))

filtered == filteredBy(search, savedRolls)

\* The search box onChange
SetSearch(q) ==
    /\ search' = q
    /\ lastOp' = Op("setSearch", 0)
    /\ UNCHANGED <<unit, theme, od, id, thickness, calc, presets, savedRolls,
                   logoUrl, storage, failing, now, download>>

\* new Date(ms).toISOString() within the first second of the epoch
toISOString(ms) ==
    <<"1", "9", "7", "0", "-", "0", "1", "-", "0", "1", "T",
      "0", "0", ":", "0", "0", ":", "0", "0", ".">>
    \o PadLeft(NatStr(ms), 3) \o <<"Z">>

csvHeader ==
    << <<"S", "a", "v", "e", "d", " ", "A", "t">>,
       <<"N", "a", "m", "e">>,
       <<"U", "n", "i", "t">>,
       <<"O", "D">>,
       <<"I", "D">>,
       <<"T", "h", "i", "c", "k", "n", "e", "s", "s">>,
       <<"L", "e", "n", "g", "t", "h", "_", "i", "n">>,
       <<"L", "e", "n", "g", "t", "h", "_", "f", "t">>,
       <<"L", "e", "n", "g", "t", "h", "_", "m">>,
       <<"L", "e", "n", "g", "t", "h", "_", "y", "d">> >>

\* String(cell) of the ten cells of a row
csvCells(r) ==
    << toISOString(r.savedAt), r.name, UnitStr(r.unit), String(r.od),
       String(r.id), String(r.thickness), String(r.lengthIn),
       String(r.lengthFt), String(r.lengthM), String(r.lengthYd) >>

\* A cell written without doubling its quotes
csvQuoteBare(cell) == <<"\"">> \o cell \o <<"\"">>

\* `"${String(cell).replaceAll('"', '""')}"`
csvQuote(cell) == <<"\"">> \o replaceAllQuotes(cell) \o <<"\"">>

toCSV(rows) ==
    LET table == <<csvHeader>> \o [k \in 1..Len(rows) |-> csvCells(rows[k])]
    IN  join([k \in 1..Len(table) |->
                 join([j \in 1..Len(table[k]) |-> csvQuote(table[k][j])],
                      <<",">>)],
             <<"\n">>)

\* exportCSV writing the rows the table shows
exportedRowsFiltered == filtered

\* The rows exportCSV hands to toCSV
exportedRows == savedRolls

\* "Export CSV"
ExportCSV ==
    /\ download' = toCSV(exportedRows)
    /\ lastOp' = Op("exportCSV", 0)
    /\ UNCHANGED <<unit, theme, od, id, thickness, calc, presets, savedRolls,
                   logoUrl, storage, failing, now, search>>

\* ------------------------------------------------------------------------
\* Environment
\* ------------------------------------------------------------------------
\* The clock advances
Tick ==
    /\ now < MaxTime
    /\ now' = now + 1
    /\ UNCHANGED <<unit, theme, od, id, thickness, calc, presets, savedRolls,
                   logoUrl, storage, failing, search, download, lastOp>>

\* The page is loaded again: state initialisers, then every effect runs once
Reload(avail) ==
    LET m == Mount(storage, avail)
    IN  /\ unit' = m.unit
        /\ theme' = m.theme
        /\ od' = m.od
        /\ id' = m.id
        /\ thickness' = m.thickness
        /\ presets' = m.presets
        /\ savedRolls' = m.savedRolls
        /\ logoUrl' = m.logoUrl
        /\ search' = <<>>
        /\ storage' = Persist(storage, failing, Keys, m)
        /\ calc' = Calc(m.od, m.id, m.thickness, m.unit)
        /\ lastOp' = Op("mount", IF avail THEN 1 ELSE 0)
        /\ UNCHANGED <<failing, now, download>>

\* Writes start or stop failing (quota, private mode)
EnvStorage(fail) ==
    /\ fail # failing
    /\ failing' = fail
    /\ UNCHANGED <<unit, theme, od, id, thickness, calc, presets, savedRolls,
                   logoUrl, storage, now, search, download, lastOp>>

\* The text stored under a key is damaged
EnvCorrupt(key) ==
    /\ storage[key].st = "ok"
    /\ Cardinality({k \in Keys : storage[k] = Corrupt}) < MaxFaults
    /\ storage' = [storage EXCEPT ![key] = Corrupt]
    /\ UNCHANGED <<unit, theme, od, id, thickness, calc, presets, savedRolls,
                   logoUrl, failing, now, search, download, lastOp>>

\* ------------------------------------------------------------------------
\* Specifications
\* ------------------------------------------------------------------------
Init == \E fail \in FailSets : InitWith(EmptyStorage, fail)

Next ==
    \/ \E v \in OdInputs : SetOd(v)
    \/ \E v \in IdInputs : SetId(v)
    \/ \E v \in ThicknessInputs : SetThickness(v)
    \/ \E m \in {"light", "auto", "dark"} : SetTheme(m)
    \/ \E u \in Units : ToggleUnit(u)
    \/ \E k \in 1..MaxPresets : ApplyPreset(k)
    \/ \E n \in PresetNameInputs, v \in PresetValueInputs : AddPreset(n, v)
    \/ \E k \in 0..(MaxPresets - 1) : RemovePreset(k)
    \/ \E n \in NameInputs : SaveRoll(n)
    \/ ClearAll
    \/ \E k \in 1..MaxRolls : UseRoll(k)
    \/ \E k \in 1..MaxRolls : DeleteRoll(k)
    \/ \E q \in QueryInputs : SetSearch(q)
    \/ ExportCSV
    \/ Tick
    \/ \E a \in BOOLEAN : Reload(a)
    \/ \E f \in FailSets : EnvStorage(f)
    \/ \E k \in Keys : EnvCorrupt(k)

Spec == Init /\ [][Next]_vars

\* The calculator alone, storage disabled: every combination of typed values
InitCalc == InitWith(EmptyStorage, Keys)

NextCalc ==
    \/ \E v \in TypedValues : SetOd(v)
    \/ \E v \in TypedValues : SetId(v)
    \/ \E v \in TypedThickness : SetThickness(v)
    \/ \E u \in Units : ToggleUnit(u)

SpecCalc == InitCalc /\ [][NextCalc]_vars

\* The unit switch alone, storage disabled: dimensions typed in either unit
\* and switched back and forth
ConvertOds == {Whole(1), Dec(254, 1), Whole(85)}

ConvertThicknesses == {Dec(3, 3), Dec(4, 3), Dec(762, 4)}

NextConvert ==
    \/ \E v \in ConvertOds : SetOd(v)
    \/ \E v \in ConvertOds : SetId(v)
    \/ \E v \in ConvertThicknesses : SetThickness(v)
    \/ \E u \in Units : ToggleUnit(u)

SpecConvert == InitCalc /\ [][NextConvert]_vars

\* Names typed into the roll name field, some with spaces around them
SpacedNames == {<<>>, <<" ">>, <<"A">>, <<" ", "A", " ">>}

\* Naming saved rolls, storage disabled
NextNames ==
    \/ \E v \in OdInputs : SetOd(v)
    \/ \E n \in SpacedNames : SaveRoll(n)
    \/ \E k \in 1..MaxRolls : DeleteRoll(k)
    \/ ClearAll
    \/ Tick

SpecNames == InitCalc /\ [][NextNames]_vars

\* Dimensions typed with more decimals than a saved roll keeps
FineOds == {Whole(6), Dec(33464, 4)}

FineThicknesses == {<<1, 256>>}

\* Saving what is on screen, storage disabled
NextSave ==
    \/ \E v \in FineOds : SetOd(v)
    \/ \E v \in FineThicknesses : SetThickness(v)
    \/ \E u \in {"mm"} : ToggleUnit(u)
    \/ \E n \in {<<>>} : SaveRoll(n)
    \/ Tick

SpecSave == InitCalc /\ [][NextSave]_vars

\* Adding to and removing from the preset registry, storage disabled
NextRegistry ==
    \/ \E n \in PresetNameInputs, v \in {Dec(4, 3)} : AddPreset(n, v)
    \/ \E idx \in (-1)..MaxPresets : RemovePresetCall(idx)
    \/ \E u \in {"mm"} : ToggleUnit(u)

SpecRegistry == InitCalc /\ [][NextRegistry]_vars

\* Thicknesses typed down to a tenth of a micron
ThinThicknesses == {Dec(3, 3), Dec(1, 4)}

\* Unit switches over typed dimensions, storage disabled
NextToggle ==
    \/ \E v \in OdInputs : SetOd(v)
    \/ \E v \in ThinThicknesses : SetThickness(v)
    \/ \E u \in Units : ToggleUnit(u)

SpecToggle == InitCalc /\ [][NextToggle]_vars

\* The saved-roll history alone, storage disabled
NextHistory ==
    \/ \E v \in OdInputs : SetOd(v)
    \/ \E n \in NameInputs : SaveRoll(n)
    \/ ClearAll
    \/ \E k \in 1..MaxRolls : UseRoll(k)
    \/ \E k \in 1..MaxRolls : DeleteRoll(k)
    \/ Tick

SpecHistory == InitCalc /\ [][NextHistory]_vars

\* The preset registry alone, storage disabled
NextPresets ==
    \/ \E n \in PresetNameInputs, v \in AnyPresetValues : AddPreset(n, v)
    \/ \E k \in 1..MaxPresets : ApplyPreset(k)
    \/ \E u \in Units : ToggleUnit(u)

SpecPresets == InitCalc /\ [][NextPresets]_vars

\* Values typed into the OD field while searching: 3 is below the default ID
SearchOds == {Whole(3), Whole(4), Whole(6)}

\* The history and its search box, storage disabled
NextSearch ==
    \/ \E v \in SearchOds : SetOd(v)
    \/ \E u \in {"mm"} : ToggleUnit(u)
    \/ \E n \in NameInputs : SaveRoll(n)
    \/ \E q \in QueryInputs : SetSearch(q)
    \/ ClearAll

SpecSearch == InitCalc /\ [][NextSearch]_vars

\* The export of the history, storage disabled
NextExport ==
    \/ \E n \in QuotedNames : SaveRoll(n)
    \/ \E q \in {<<>>, <<"A">>} : SetSearch(q)
    \/ ExportCSV
    \/ ClearAll

SpecExport == InitCalc /\ [][NextExport]_vars

\* Unit switches over a history and a registry, storage disabled
NextUnits ==
    \/ \E v \in OdInputs : SetOd(v)
    \/ \E u \in Units : ToggleUnit(u)
    \/ \E n \in {<<>>} : SaveRoll(n)
    \/ \E k \in 1..MaxRolls : UseRoll(k)
    \/ \E v \in {Dec(4, 3)} : AddPreset(<<"P">>, v)

SpecUnits == InitCalc /\ [][NextUnits]_vars

\* The two persisted collections: mutations, restarts and failing writes
NextStore ==
    \/ \E n \in {<<>>} : SaveRoll(n)
    \/ ClearAll
    \/ DeleteRoll(1)
    \/ \E v \in {Dec(4, 3)} : AddPreset(<<"P">>, v)
    \/ RemovePreset(0)
    \/ \E a \in {TRUE} : Reload(a)
    \/ \E f \in FailSets : EnvStorage(f)

SpecStore == Init /\ [][NextStore]_vars

\* The keys whose stored text gets damaged between two loads: the unit, the
\* numbers whose default depends on it or not, and a list
DamagedKeys == {"unit", "od", "id", "thickness", "presets"}

\* Loading: what a restart reads back after keys were written and damaged
NextLoad ==
    \/ \E u \in {"mm"} : ToggleUnit(u)
    \/ \E v \in {Dec(4, 3)} : AddPreset(<<"P">>, v)
    \/ \E a \in BOOLEAN : Reload(a)
    \/ \E f \in {Keys} : EnvStorage(f)
    \/ \E k \in DamagedKeys : EnvCorrupt(k)

SpecLoad == Init /\ [][NextLoad]_vars

\* ------------------------------------------------------------------------
\* Properties of the calculation (SpecCalc)
\* ------------------------------------------------------------------------
Lengths(c) == {c.lengthIn, c.lengthFt, c.lengthM, c.lengthYd}

\* C1: the result is Invalid, with the fixed message and nothing else, exactly
\* when NOT (od > id and thickness > 0) in inches; otherwise it is Valid and
\* carries all four lengths.
C1_InvalidIffCheckFails ==
    IF Gt(toInches(od, unit), toInches(id, unit))
       /\ Gt(toInches(thickness, unit), Whole(0))
    THEN /\ calc.valid
         /\ DOMAIN calc = {"valid", "lengthIn", "lengthFt", "lengthYd", "lengthM"}
    ELSE /\ ~calc.valid
         /\ DOMAIN calc = {"valid", "message"}
         /\ calc.message = "Check that OD > ID and thickness > 0"

C1_Witness ==
    /\ lastOp.op \in {"setOd", "setId", "toggleUnit"}
    /\ ~Gt(od, id)
    /\ Gt(thickness, Whole(0))
    /\ ~calc.valid

\* C2 as stated: a Valid result has od > id > 0 and four strictly positive,
\* finite lengths.
C2_ValidMeansPositive ==
    calc.valid =>
        /\ Gt(od, id)
        /\ Gt(id, Whole(0))
        /\ \A l \in Lengths(calc) : FixIsFinite(l) /\ FixPositive(l)

\* C2 amended: a Valid result has od > id and thickness > 0 and finite
\* lengths; the lengths are strictly positive when id is not negative.
C2_ValidPositiveForNonNegativeId ==
    calc.valid =>
        /\ Gt(od, id)
        /\ Gt(thickness, Whole(0))
        /\ \A l \in Lengths(calc) : FixIsFinite(l)
        /\ ~Gt(Whole(0), id) => \A l \in Lengths(calc) : FixPositive(l)

C2_Witness ==
    /\ lastOp.op = "setId"
    /\ id = Whole(0)
    /\ calc.valid
    /\ \A l \in Lengths(calc) : FixPositive(l)

\* C3: equal diameters and a zero thickness are always rejected, so the
\* formula never divides by a zero thickness.
C3_DegenerateRejected ==
    /\ od = id => ~calc.valid
    /\ thickness = Whole(0) => ~calc.valid
    /\ calc.valid => toInches(thickness, unit) # Whole(0)

C3_Witness ==
    /\ lastOp.op = "setThickness"
    /\ Gt(od, id)
    /\ thickness = Whole(0)
    /\ ~calc.valid

\* ------------------------------------------------------------------------
\* Properties of the history (SpecHistory)
\* ------------------------------------------------------------------------
\* C4: saving while the result is Invalid leaves the history as it was,
\* whatever the name and the history.
C4_InvalidSaveIsNoOp ==
    [][(~calc.valid /\ \E n \in NameInputs : SaveRoll(n))
          => savedRolls' = savedRolls]_vars

C4_Witness ==
    /\ lastOp.op = "saveRoll"
    /\ lastOp.i = 0
    /\ ~calc.valid
    /\ savedRolls # <<>>

\* The list without its element at position j
WithoutAt(rolls, j) ==
    [k \in 1..(Len(rolls) - 1) |-> IF k < j THEN rolls[k] ELSE rolls[k + 1]]

FirstSavedAt(rolls, at) ==
    CHOOSE j \in SameSavedAt(rolls, at) : \A m \in SameSavedAt(rolls, at) : j <= m

\* C5: Delete removes only the first entry whose savedAt matches and keeps
\* every other entry, in order.
C5_DeleteRemovesFirstMatchOnly ==
    [][\A k \in 1..Len(savedRolls) :
          DeleteRoll(k) =>
              savedRolls' = WithoutAt(savedRolls,
                                FirstSavedAt(savedRolls, savedRolls[k].savedAt))]_vars

\* C6: a Valid save followed by Delete of the entry just saved gives back the
\* history as it was before the save.
C6_SaveThenDeleteRestores ==
    [][(lastOp.op = "saveRoll" /\ lastOp.i = 1 /\ DeleteRoll(1))
          => savedRolls' = Tail(savedRolls)]_vars

\* C7: a Valid save puts exactly one new entry at the head and keeps the old
\* entries behind it, in order; the history stays ordered by savedAt, most
\* recent first.
C7_SavePrependsMostRecentFirst ==
    /\ [][(calc.valid /\ \E n \in NameInputs : SaveRoll(n)) =>
            /\ Len(savedRolls') = Len(savedRolls) + 1
            /\ savedRolls'[1].savedAt = now
            /\ \A k \in 1..Len(savedRolls) : savedRolls'[k + 1] = savedRolls[k]]_vars
    /\ [](\A j, k \in 1..Len(savedRolls) :
            j < k => savedRolls[j].savedAt >= savedRolls[k].savedAt)

C7_Witness ==
    /\ lastOp.op = "saveRoll"
    /\ lastOp.i = 1
    /\ Len(savedRolls) = 2
    /\ savedRolls[1].savedAt > savedRolls[2].savedAt

\* ------------------------------------------------------------------------
\* Properties of loading (SpecLoad)
\* ------------------------------------------------------------------------
\* The text under a key parses to a value the initialiser keeps
Readable(st, key) ==
    /\ st[key].st = "ok"
    /\ key = "id" => st[key].val[1] # JsNull

LoadedUnit(st, avail) ==
    IF avail /\ Readable(st, "unit") THEN st["unit"].val[1] ELSE "in"

\* The fallback of each key once the unit `u` has been loaded
LoadDefault(key, u) ==
    CASE key = "unit" -> "in"
      [] key = "theme" -> "auto"
      [] key = "od" -> Whole(6)
      [] key = "id" -> IF u = "mm" THEN Whole(85) ELSE Dec(3346, 3)
      [] key = "thickness" -> IF u = "mm" THEN Dec(76, 3) ELSE Dec(3, 3)
      [] key = "presets" -> DEFAULT_PRESETS
      [] key = "savedRolls" -> <<>>
      [] key = "logoUrl" -> Null

\* C8 as stated: damaging the text of any one key leaves the value loaded for
\* every other key as it was (each key has its own stored value or its own
\* default).
C8_OtherKeysUnaffected ==
    LET intact == Mount(storage, TRUE)
    IN  \A k \in Keys :
            LET damaged == Mount([storage EXCEPT ![k] = Corrupt], TRUE)
            IN  \A j \in Keys \ {k} : damaged[j] = intact[j]

\* C8: a load always yields a value.  Every key gets its stored value when
\* the storage is available and the text parses, and its fallback otherwise;
\* a failure on one key never changes a value that another key loads from
\* storage, but the fallbacks of id and thickness are those of the loaded
\* unit, so a failure on the unit key changes what they fall back to.
C8_LoadFallsBackPerKey ==
    /\ [][\A a \in BOOLEAN : lastOp'.op = "mount" /\ Reload(a) =>
            \A j \in Keys :
                Cur'[j] = IF a /\ Readable(storage, j)
                          THEN storage[j].val[1]
                          ELSE LoadDefault(j, LoadedUnit(storage, a))]_vars
    /\ [](LET intact == Mount(storage, TRUE)
           IN  \A k \in Keys :
                   LET damaged == Mount([storage EXCEPT ![k] = Corrupt], TRUE)
                   IN  \A j \in Keys \ {k} :
                           Readable(storage, j)
                               \/ ~(k = "unit" /\ j \in {"id", "thickness"})
                               => damaged[j] = intact[j])

\* A restart has read a damaged id next to a stored od and unit: od keeps its
\* stored value, id takes the millimetre default
C8_Witness ==
    /\ lastOp = Op("mount", 1)
    /\ storage["id"] = Corrupt
    /\ storage["unit"] = Stored("mm")
    /\ unit = "mm"
    /\ id = Whole(85)
    /\ storage["od"].st = "ok"
    /\ od = storage["od"].val[1]
    /\ od # Whole(6)

RollsMutation ==
    \/ \E n \in NameInputs : SaveRoll(n) /\ calc.valid
    \/ ClearAll
    \/ \E k \in 1..MaxRolls : DeleteRoll(k)

\* A step of a handler that installs a new presets array
PresetsMutation ==
    \/ \E v \in PresetValueInputs :
           AddPreset(<<"P">>, v) /\ addPreset(presets, <<"P">>, v) # presets
    \/ RemovePreset(0)

\* What one write of the collection leaves under its key
WrittenOnce(key, value) ==
    IF key \in failing THEN storage'[key] = storage[key]
    ELSE /\ storage'[key] = Stored(Json(key, value))
         /\ Mount(storage', TRUE)[key] = value

\* C10: each mutation of presets or savedRolls is followed by one write of
\* the whole new collection to its own key; a write that succeeds stores the
\* in-memory collection, whatever failed before, and a restart reads it
\* back; a write that fails is not made up for by any later step, and only
\* a restart reads the collections from storage.
C10_WriteAfterEveryMutation ==
    [][/\ RollsMutation => /\ WrittenOnce("savedRolls", savedRolls')
                           /\ storage'["presets"] = storage["presets"]
       /\ PresetsMutation => /\ WrittenOnce("presets", presets')
                             /\ storage'["savedRolls"] = storage["savedRolls"]
       /\ (\E f \in FailSets : EnvStorage(f))
              => /\ storage' = storage
                 /\ savedRolls' = savedRolls
                 /\ presets' = presets]_vars

\* A save was stored although the last write of the presets had failed
C10_Witness ==
    /\ failing = {}
    /\ lastOp = Op("saveRoll", 1)
    /\ savedRolls # <<>>
    /\ storage["savedRolls"] = Stored(JsonRolls(savedRolls))
    /\ storage["presets"] # Stored(JsonPresets(presets))

\* ------------------------------------------------------------------------
\* Properties of the preset registry (SpecPresets)
\* ------------------------------------------------------------------------
\* The value converted to inches is zero, negative or not finite
NotPositiveFinite(v) ==
    LET tIn == toInches(v, unit)
    IN  ~IsFinite(tIn) \/ ~Gt(tIn, Whole(0))

\* C11: addPreset leaves the registry unchanged whenever the value converted
\* to inches is zero, negative or non-finite (NaN, +Infinity, -Infinity), so
\* every preset of the registry has a positive finite thickness.
C11_AddRejectsNonPositiveOrNonFinite ==
    /\ [][\A n \in PresetNameInputs : \A v \in AnyPresetValues :
            AddPreset(n, v) /\ NotPositiveFinite(v) => presets' = presets]_vars
    /\ [](\A k \in 1..Len(presets) :
            /\ IsFinite(presets[k].thicknessIn)
            /\ Gt(presets[k].thicknessIn, Whole(0)))

\* x rounded half-up to d decimals, a non-finite x giving 0
RoundTo(x, d) ==
    IF IsFinite(x) THEN Num(MathRound(Mul(x, Whole(Pow10(d)))), Pow10(d))
    ELSE Whole(0)

\* C12 as stated: applying a preset sets the thickness to its inch value in
\* the active unit, rounded to 4 decimals in millimetres and to 5 decimals
\* in inches.
C12_ApplyRoundsFourDecimalsInMm ==
    [][\A k \in 1..MaxPresets :
        ApplyPreset(k) =>
            thickness' = IF unit = "mm"
                         THEN RoundTo(Mul(presets[k].thicknessIn, Dec(254, 1)), 4)
                         ELSE RoundTo(presets[k].thicknessIn, 5)]_vars

\* C12: applying a preset sets the thickness to its inch value in the active
\* unit, rounded to 3 decimals in millimetres and to 5 decimals in inches,
\* and changes nothing else of the inputs or the registry.
C12_ApplyRoundsThreeDecimalsInMm ==
    [][\A k \in 1..MaxPresets :
        ApplyPreset(k) =>
            /\ thickness' = IF unit = "mm"
                            THEN RoundTo(Mul(presets[k].thicknessIn, Dec(254, 1)), 3)
                            ELSE RoundTo(presets[k].thicknessIn, 5)
            /\ UNCHANGED <<unit, od, id, presets>>]_vars

\* "Calendared 3 mil" was applied in millimetres: 0.0762 became 0.076
C12_Witness ==
    /\ lastOp = Op("applyPreset", 1)
    /\ unit = "mm"
    /\ presets[1] = DEFAULT_PRESETS[1]
    /\ thickness = Dec(76, 3)

\* C13: applying a preset in millimetres sets the thickness to the inch
\* value times 25.4 rounded to 3 decimals; for "Cast 2 mil" (0.002 in) that
\* is 0.051.
C13_CastTwoMilInMm ==
    [][\A k \in 1..MaxPresets :
        ApplyPreset(k) /\ unit = "mm" =>
            /\ Mul(thickness', Whole(1000))[2] = 1
            /\ LET exact == Mul(presets[k].thicknessIn, Dec(254, 1))
               IN  IsFinite(exact) =>
                       /\ ~Gt(Sub(thickness', exact), Dec(5, 4))
                       /\ Gt(Sub(thickness', exact), Dec(-5, 4))
            /\ presets[k] = DEFAULT_PRESETS[2] => thickness' = Dec(51, 3)]_vars

\* "Cast 2 mil" was applied in millimetres
C13_Witness ==
    /\ lastOp.op = "applyPreset"
    /\ unit = "mm"
    /\ \E k \in 1..Len(presets) :
           lastOp.i = k /\ presets[k] = DEFAULT_PRESETS[2]
    /\ thickness = Dec(51, 3)

\* ------------------------------------------------------------------------
\* Properties of search and export (SpecSearch, SpecExport)
\* ------------------------------------------------------------------------
\* The entries of the history, in order, that satisfy Keep
Matching(Keep(_)) ==
    LET idx == {k \in 1..Len(savedRolls) : Keep(savedRolls[k])}
        nth(j) == CHOOSE k \in idx : Cardinality({i \in idx : i < k}) = j - 1
    IN  [j \in 1..Cardinality(idx) |-> savedRolls[nth(j)]]

\* C14 as stated: the rows shown are, in history order, exactly the entries
\* for which the query as typed is a case-insensitive substring of the name
\* or a substring of the text of od or of id; the empty query shows the
\* whole history.
C14_SearchMatchesQueryAsTyped ==
    filtered =
        IF search = <<>> THEN savedRolls
        ELSE LET Keep(r) ==
                     \/ includes(toLowerCase(r.name), toLowerCase(search))
                     \/ includes(String(r.od), search)
                     \/ includes(String(r.id), search)
             IN  Matching(Keep)

\* C14: with q the query trimmed of surrounding whitespace and lowercased,
\* an empty q shows the whole history and any other q shows, in history
\* order, exactly the entries where q is a substring of the lowercased name
\* or of the text of od or of id; typing in the search box never changes
\* the history.
C14_SearchMatchesTrimmedQuery ==
    /\ [](LET q == toLowerCase(Trim(search))
              Keep(r) == \/ includes(toLowerCase(r.name), q)
                         \/ includes(String(r.od), q)
                         \/ includes(String(r.id), q)
          IN  filtered = IF q = <<>> THEN savedRolls ELSE Matching(Keep))
    /\ [][\A q \in QueryInputs : SetSearch(q) => savedRolls' = savedRolls]_vars

\* " a" was typed over a history of two: only the roll named "A" is shown
C14_Witness ==
    /\ lastOp.op = "setSearch"
    /\ search = <<" ", "a">>
    /\ Len(savedRolls) = 2
    /\ Len(filtered) = 1
    /\ filtered[1].name = <<"A">>

\* C20: "Clear all" empties the history from any state, whatever the search
\* text, the unit or the validity of the calculation, and leaves the presets,
\* the working inputs and the search text unchanged.
C20_ClearEmptiesUnconditionally ==
    [][ClearAll => /\ savedRolls' = <<>>
                   /\ UNCHANGED <<presets, unit, od, id, thickness, calc,
                                  search>>]_vars

\* A history of two was cleared in millimetres, with an Invalid calculation
\* and a search text that showed only part of it
C20_Witness ==
    /\ lastOp = Op("clearAll", 2)
    /\ savedRolls = <<>>
    /\ unit = "mm"
    /\ ~calc.valid
    /\ search = <<"A">>

\* A reader of CSV text with the standard quoting rules: a comma ends a
\* field and a line feed a record unless inside double quotes, where two
\* double quotes stand for one.  A position is inside quotes when an odd
\* number of double quotes comes before it.
QuotesBefore(text, i) == Cardinality({k \in 1..(i - 1) : text[k] = "\""})

\* The j-th smallest member of a set of positions
Nth(S, j) == CHOOSE k \in S : Cardinality({i \in S : i < k}) = j - 1

\* The pieces of the text between the positions of `cuts`
SplitAt(text, cuts) ==
    LET n == Cardinality(cuts)
    IN  [j \in 1..(n + 1) |->
            SubSeq(text,
                   IF j = 1 THEN 1 ELSE Nth(cuts, j - 1) + 1,
                   IF j = n + 1 THEN Len(text) ELSE Nth(cuts, j) - 1)]

SplitOutsideQuotes(text, sep) ==
    SplitAt(text, {i \in 1..Len(text) :
                      text[i] = sep /\ QuotesBefore(text, i) % 2 = 0})

\* The value of a field: without its wrapping quotes, doubled quotes single
Unquote(f) ==
    IF f = <<>> \/ f[1] # "\"" THEN f
    ELSE LET inner == SubSeq(f, 2, Len(f) - 1)
             keep == {k \in 1..Len(inner) :
                         inner[k] # "\"" \/ QuotesBefore(inner, k) % 2 = 0}
         IN  [j \in 1..Cardinality(keep) |-> inner[Nth(keep, j)]]

ParseCSV(text) ==
    LET records == SplitOutsideQuotes(text, "\n")
    IN  [k \in 1..Len(records) |->
            LET fields == SplitOutsideQuotes(records[k], ",")
            IN  [j \in 1..Len(fields) |-> Unquote(fields[j])]]

\* The header row as it is written
HeaderLine ==
    join([j \in 1..Len(csvHeader) |-> <<"\"">> \o csvHeader[j] \o <<"\"">>],
         <<",">>)

\* C15: an export writes the fixed header row and then one row per entry of
\* the history, in the order of the history, whatever the search text shows;
\* for an empty history the file is exactly the header row.
C15_ExportWritesWholeHistoryInOrder ==
    [][ExportCSV =>
        LET rows == ParseCSV(download')
        IN  /\ Len(rows) = 1 + Len(savedRolls)
            /\ rows[1] = csvHeader
            /\ Len(rows[1]) = 10
            /\ \A k \in 1..Len(savedRolls) :
                   /\ rows[k + 1][2] = savedRolls[k].name
                   /\ rows[k + 1][1] = toISOString(savedRolls[k].savedAt)
                   /\ rows[k + 1][4] = String(savedRolls[k].od)
            /\ savedRolls = <<>> => download' = HeaderLine]_vars

\* A history of two was exported while the table showed fewer rows
C15_Witness ==
    /\ lastOp.op = "exportCSV"
    /\ Len(savedRolls) = 2
    /\ Len(filtered) < 2
    /\ Len(ParseCSV(download)) = 3

\* The text is one double quote, a run without bare double quotes (each
\* double quote inside it is doubled), and one double quote
WrappedAndDoubled(cellText) ==
    /\ Len(cellText) >= 2
    /\ cellText[1] = "\""
    /\ cellText[Len(cellText)] = "\""
    /\ LET inner == SubSeq(cellText, 2, Len(cellText) - 1)
           quotes == {k \in 1..Len(inner) : inner[k] = "\""}
       IN  \E first \in SUBSET quotes :
               /\ \A k \in first : k + 1 \in quotes \ first
               /\ \A k \in quotes \ first : k - 1 \in first

\* C16: in an export every field of every row, header included, is wrapped
\* in double quotes of its own with each double quote inside it doubled, and
\* reading the text back with the standard quoting rules gives exactly the
\* ten values of every row, also for a name with a comma and a double quote.
C16_ExportRoundTripsEveryField ==
    [][ExportCSV =>
        LET expected == <<csvHeader>>
                            \o [k \in 1..Len(savedRolls) |-> csvCells(savedRolls[k])]
            lines == [k \in 1..Len(expected) |->
                         join([j \in 1..10 |->
                                  <<"\"">> \o replaceAllQuotes(expected[k][j]) \o <<"\"">>],
                              <<",">>)]
        IN  /\ ParseCSV(download') = expected
            /\ download' = join(lines, <<"\n">>)
            /\ \A k \in 1..Len(expected) : \A j \in 1..10 :
                   WrappedAndDoubled(<<"\"">> \o replaceAllQuotes(expected[k][j])
                                         \o <<"\"">>)]_vars

\* A roll whose name has a comma and a double quote was exported and reads
\* back with that name
C16_Witness ==
    /\ lastOp.op = "exportCSV"
    /\ \E k \in 1..Len(savedRolls) :
           /\ savedRolls[k].name = <<"a", ",", "\"">>
           /\ ParseCSV(download)[k + 1][2] = <<"a", ",", "\"">>

\* ------------------------------------------------------------------------
\* Properties of the unit switch (SpecUnits, SpecCalc, SpecConvert)
\* ------------------------------------------------------------------------
\* C17: a unit switch changes at most unit, od, id and thickness (and the
\* result computed from them): the presets and every saved roll stay as they
\* were, and a saved roll carries the unit that was active when it was
\* saved.
C17_ToggleLeavesPresetsAndHistory ==
    [][/\ \A u \in Units :
              ToggleUnit(u) => UNCHANGED <<presets, savedRolls, theme, logoUrl,
                                           search>>
       /\ \A n \in NameInputs :
              SaveRoll(n) /\ calc.valid
                  => /\ savedRolls'[1].unit = unit
                     /\ Tail(savedRolls') = savedRolls]_vars

\* The unit was switched to millimetres over a roll saved in inches and a
\* registry with an added preset
C17_Witness ==
    /\ lastOp = Op("toggleUnit", 1)
    /\ unit = "mm"
    /\ savedRolls # <<>>
    /\ savedRolls[1].unit = "in"
    /\ Len(presets) = Len(DEFAULT_PRESETS) + 1

\* Two lengths agree to the third decimal
Near(x, y) == roundFix(x, 3) = roundFix(y, 3)

\* The four lengths of a Valid result, for whole od and id: the formula on
\* the inch values and the three derived units
LengthsFollowFormula ==
    calc.valid /\ od[2] = 1 /\ id[2] = 1 =>
        LET odIn == toInches(od, unit)
            idIn == toInches(id, unit)
            tIn == toInches(thickness, unit)
            q == Div(Sub(Mul(odIn, odIn), Mul(idIn, idIn)), Mul(Whole(4), tIn))
        IN  /\ Near(calc.lengthIn, FixTimes(FixPi, q))
            /\ Near(FixTimes(calc.lengthFt, Whole(12)), calc.lengthIn)
            /\ Near(FixTimes(calc.lengthYd, Whole(36)), calc.lengthIn)
            /\ Near(calc.lengthM, FixTimes(FixPi, Mul(q, Dec(254, 4))))
            /\ Near(FixTimes(calc.lengthYd, Whole(3)), calc.lengthFt)

ExampleInputs ==
    unit = "in" /\ od = Whole(6) /\ id = Whole(3) /\ thickness = Dec(3, 3)

\* C18 as stated: the lengths follow the formula and its derived units, and
\* 6 / 3 / 0.003 in gives about 21205.75 in, 1767.15 ft, 538.59 m, 589.05 yd.
C18_ExampleTwentyOneThousand ==
    /\ LengthsFollowFormula
    /\ ExampleInputs =>
           /\ calc.valid
           /\ roundFix(calc.lengthIn, 2) = Dec(2120575, 2)
           /\ roundFix(calc.lengthFt, 2) = Dec(176715, 2)
           /\ roundFix(calc.lengthM, 2) = Dec(53859, 2)
           /\ roundFix(calc.lengthYd, 2) = Dec(58905, 2)

\* C18: the lengths follow the formula and its derived units without being
\* rounded, and 6 / 3 / 0.003 in gives about 7068.58 in, 589.05 ft, 179.54 m
\* and 196.35 yd (7068.583... in before any rounding).
C18_ExampleSevenThousand ==
    /\ LengthsFollowFormula
    /\ ExampleInputs =>
           /\ calc.valid
           /\ roundFix(calc.lengthIn, 2) = Dec(706858, 2)
           /\ roundFix(calc.lengthFt, 2) = Dec(58905, 2)
           /\ roundFix(calc.lengthM, 2) = Dec(17954, 2)
           /\ roundFix(calc.lengthYd, 2) = Dec(19635, 2)
           /\ roundFix(calc.lengthIn, 3) = Dec(7068583, 3)

\* 6 / 3 / 0.003 in was typed and the result is Valid
C18_Witness ==
    /\ ExampleInputs
    /\ lastOp.op \in {"setOd", "setId", "setThickness"}
    /\ calc.valid
    /\ roundFix(calc.lengthIn, 2) = Dec(706858, 2)

\* a and b differ by at most tol
Within(a, b, tol) == ~Gt(Sub(a, b), tol) /\ ~Gt(Sub(b, a), tol)

\* What toggleUnit("mm") makes of a value in inches
SwitchedBack(v, d) == round(toMM(v, "in"), d)

\* A switch from millimetres to inches whose switch back gives OD and ID
\* within tolD, and the thickness within tolT, of the millimetres it started
\* from; 25.4 mm becomes exactly 1 inch and 1 inch becomes exactly 25.4 mm
RoundTripWithin(tolD, tolT) ==
    /\ unit = "mm" /\ ToggleUnit("in") =>
           /\ Within(SwitchedBack(od', 3), od, tolD)
           /\ Within(SwitchedBack(id', 3), id, tolD)
           /\ Within(SwitchedBack(thickness', 4), thickness, tolT)
           /\ od = Dec(254, 1) => od' = Whole(1)
    /\ unit = "in" /\ ToggleUnit("mm") =>
           (od = Whole(1) => od' = Dec(254, 1))

\* C19 as stated: millimetres switched to inches and back come back within
\* the declared precision (3 decimals of OD/ID, 4 decimals of thickness) of
\* the original; 25.4 mm is exactly 1 in and 1 in is 25.4 mm.
C19_RoundTripWithinDeclaredPrecision ==
    [][RoundTripWithin(Dec(1, 3), Dec(1, 4))]_vars

\* C19: millimetres switched to inches and back come back within 0.0132 mm
\* (OD/ID: half a thousandth of an inch plus half a thousandth of a
\* millimetre) and 0.000177 mm (thickness) of the original; 25.4 mm is
\* exactly 1 in and 1 in is 25.4 mm.
C19_RoundTripWithinRoundingOfBothLegs ==
    [][RoundTripWithin(Dec(132, 4), Dec(177, 6))]_vars

\* 85 mm was switched to 3.346 in, which a switch back turns into 84.988 mm
C19_Witness ==
    /\ lastOp = Op("toggleUnit", 1)
    /\ unit = "in"
    /\ od = Dec(3346, 3)
    /\ toggleUnit("mm").od = Dec(84988, 3)
    /\ id = Whole(1)

\* ------------------------------------------------------------------------
\* Properties of the saved entry (SpecNames, SpecSave)
\* ------------------------------------------------------------------------
\* The name has no character other than white space
Blank(n) == \A i \in 1..Len(n) : IsSpace(n[i])

\* "Roll k" for a single-digit k
DefaultName(k) == <<"R", "o", "l", "l", " ", Digits[k + 1]>>

\* r is n without the white space around it
IsTrimmed(r, n) ==
    \E a, b \in 1..Len(n) :
        /\ r = SubSeq(n, a, b)
        /\ ~IsSpace(n[a]) /\ ~IsSpace(n[b])
        /\ \A i \in 1..Len(n) : (i < a \/ i > b) => IsSpace(n[i])

IsRounded(s, v, d) ==
    /\ Pow10(d) % s[2] = 0
    /\ Within(s, v, <<5, Pow10(d + 1)>>)

\* C22: the entry of a Valid save holds the active unit, od and id rounded to
\* 3 decimals, the thickness rounded to 5, each of the four lengths of the
\* full-precision result rounded to 2 and the current time; the inputs on
\* screen and the live result stay as they were.
C22_EntryRoundsAndInputsStay ==
    [][calc.valid /\ SaveRoll(<<>>) =>
          LET e == savedRolls'[1]
          IN  /\ e.unit = unit
              /\ IsRounded(e.od, od, 3) /\ e.od = round(od, 3)
              /\ IsRounded(e.id, id, 3) /\ e.id = round(id, 3)
              /\ IsRounded(e.thickness, thickness, 5)
              /\ e.thickness = round(thickness, 5)
              /\ e.lengthIn = roundFix(calc.lengthIn, 2)
              /\ e.lengthFt = roundFix(calc.lengthFt, 2)
              /\ e.lengthM = roundFix(calc.lengthM, 2)
              /\ e.lengthYd = roundFix(calc.lengthYd, 2)
              /\ \A x \in {e.lengthIn, e.lengthFt, e.lengthM, e.lengthYd} :
                     100 % x[2] = 0
              /\ e.savedAt = now
              /\ UNCHANGED <<unit, od, id, thickness, calc>>]_vars

\* 3.3464 in by 0.00390625 in was saved at time 1: the entry holds 3.346 and
\* 0.00391, the screen still holds the values as typed
C22_Witness ==
    /\ lastOp = Op("saveRoll", 1)
    /\ od = Dec(33464, 4) /\ thickness = <<1, 256>> /\ unit = "in"
    /\ savedRolls[1].od = Dec(3346, 3)
    /\ savedRolls[1].thickness = Dec(391, 5)
    /\ savedRolls[1].savedAt = 1
    /\ roundFix(calc.lengthIn, 3) # savedRolls[1].lengthIn

\* C27: every entry of the history satisfies, in its stored fields, od > id
\* and thickness > 0 and has its four lengths strictly positive.
C27_SavedEntriesStayValid ==
    \A k \in 1..Len(savedRolls) :
        LET e == savedRolls[k]
        IN  /\ Gt(e.od, e.id)
            /\ Gt(e.thickness, Whole(0))
            /\ \A x \in {e.lengthIn, e.lengthFt, e.lengthM, e.lengthYd} :
                   Gt(x, Whole(0))

\* ------------------------------------------------------------------------
\* Properties of adding and removing presets (SpecRegistry)
\* ------------------------------------------------------------------------
\* C23: an accepted add puts exactly one preset in front of the others, which
\* keep their order; it holds the value converted to inches, unrounded, and
\* the given name or, when the name is empty, the value in the active unit at
\* 3 decimals followed by the unit; names and values may repeat.
C23_AddPrependsOneUnrounded ==
    [][\A n \in PresetNameInputs :
          AddPreset(n, Dec(4, 3)) =>
              /\ Len(presets') = Len(presets) + 1
              /\ \A k \in 1..Len(presets) : presets'[k + 1] = presets[k]
              /\ presets'[1].thicknessIn =
                     (IF unit = "mm" THEN <<1, 6350>> ELSE Dec(4, 3))
              /\ presets'[1].name =
                     (IF n # <<>> THEN n
                      ELSE IF unit = "mm"
                      THEN <<"0", ".", "0", "0", "4", " ", "m", "m">>
                      ELSE <<"0", ".", "0", "0", "4", " ", "i", "n">>)]_vars

\* 0.004 mm was added without a name on top of a preset of the same name and
\* value
C23_Witness ==
    /\ lastOp = Op("addPreset", 1)
    /\ unit = "mm"
    /\ Len(presets) >= 2
    /\ presets[1] = [name |-> <<"0", ".", "0", "0", "4", " ", "m", "m">>,
                     thicknessIn |-> <<1, 6350>>]
    /\ presets[2] = presets[1]

\* C24: removePreset(idx) with idx inside the list removes the preset at that
\* position and keeps the others in order; with idx outside the list (-1 or
\* at least the length) it leaves the registry as it was, and the call is
\* always possible.
C24_RemoveByPositionOrNothing ==
    /\ [][\A idx \in (-1)..MaxPresets :
            RemovePresetCall(idx) =>
                presets' = IF idx \in 0..(Len(presets) - 1)
                           THEN WithoutAt(presets, idx + 1)
                           ELSE presets]_vars
    /\ [](\A idx \in (-1)..MaxPresets : ENABLED RemovePresetCall(idx))

\* The second preset was removed, then an index past the end changed nothing
C24_Witness ==
    /\ lastOp = Op("removePreset", Len(presets))
    /\ presets = <<DEFAULT_PRESETS[1], DEFAULT_PRESETS[3], DEFAULT_PRESETS[4]>>

\* ------------------------------------------------------------------------
\* Properties of the converted inputs (SpecConvert, SpecToggle, SpecUnits)
\* ------------------------------------------------------------------------
\* v, a value in the unit `from`, expressed in the other unit
Converted(v, from) ==
    IF from = "in" THEN Mul(v, Dec(254, 1)) ELSE Div(v, Dec(254, 1))

\* C25: a switch to the other unit replaces od and id by their converted
\* values rounded to 3 decimals and the thickness by its converted value
\* rounded to 4 decimals (inch to mm) or 5 decimals (mm to inch), and sets
\* the unit; a switch to the active unit changes nothing.
C25_ToggleConvertsAndRounds ==
    [][\A u \in Units :
          ToggleUnit(u) =>
              IF u = unit
              THEN UNCHANGED <<unit, od, id, thickness, calc>>
              ELSE LET td == IF u = "mm" THEN 4 ELSE 5
                   IN  /\ unit' = u
                       /\ IsRounded(od', Converted(od, unit), 3)
                       /\ od' = RoundTo(Converted(od, unit), 3)
                       /\ IsRounded(id', Converted(id, unit), 3)
                       /\ id' = RoundTo(Converted(id, unit), 3)
                       /\ IsRounded(thickness', Converted(thickness, unit), td)
                       /\ thickness' = RoundTo(Converted(thickness, unit), td)]_vars

\* 1 in by 0.003 in was switched to 25.4 mm by 0.0762 mm
C25_Witness ==
    /\ lastOp = Op("toggleUnit", 1)
    /\ unit = "mm"
    /\ od = Dec(254, 1)
    /\ thickness = Dec(762, 4)
    /\ calc = Calc(od, id, thickness, unit)

\* C28: a unit switch keeps the live result Valid when it was Valid and
\* Invalid when it was Invalid, in both directions.
C28_TogglePreservesValidity ==
    [][\A u \in Units : ToggleUnit(u) => calc'.valid = calc.valid]_vars

\* C29: "Use" on a saved roll ends, whatever the active unit was, with the
\* unit, od, id and thickness of the roll exactly as saved, and leaves the
\* history and the presets as they were.
C29_UseLoadsSavedValues ==
    [][\A k \in 1..MaxRolls :
          UseRoll(k) =>
              LET r == savedRolls[k]
              IN  /\ unit' = r.unit
                  /\ od' = r.od
                  /\ id' = r.id
                  /\ thickness' = r.thickness
                  /\ calc' = Calc(r.od, r.id, r.thickness, r.unit)
                  /\ UNCHANGED <<savedRolls, presets>>]_vars

\* The older roll, saved in inches below one saved in millimetres, was loaded
C29_Witness ==
    /\ lastOp = Op("useRoll", 2)
    /\ Len(savedRolls) = 2
    /\ savedRolls[1].unit = "mm"
    /\ savedRolls[2].unit = "in"
    /\ <<unit, od, id, thickness>>
           = <<"in", savedRolls[2].od, savedRolls[2].id, savedRolls[2].thickness>>

\* ------------------------------------------------------------------------
\* Properties of the first start (SpecLoad)
\* ------------------------------------------------------------------------
\* The four built-in presets: 3 mil, 2 mil, 1.5 mil and 0.1 mm in inches
BuiltIns ==
    << [name |-> <<"C", "a", "l", "e", "n", "d", "a", "r", "e", "d", " ",
                   "3", " ", "m", "i", "l">>,
        thicknessIn |-> <<3, 1000>>],
       [name |-> <<"C", "a", "s", "t", " ", "2", " ", "m", "i", "l">>,
        thicknessIn |-> <<1, 500>>],
       [name |-> <<"L", "a", "m", "i", "n", "a", "t", "e", " ",
                   "1", ".", "5", " ", "m", "i", "l">>,
        thicknessIn |-> <<3, 2000>>],
       [name |-> <<"1", "0", "0", " ", "[mu]", "m", " ", "f", "i", "l", "m">>,
        thicknessIn |-> <<1, 254>>] >>

\* C26: a start that finds nothing persisted gives the four built-in presets
\* in order, an empty history and inches; a start that finds a persisted
\* preset list uses that list as it is, without the built-ins merged in.
C26_SeedsBuiltInsOnlyWhenNothingStored ==
    /\ [](lastOp.op = "start" =>
              presets = BuiltIns /\ savedRolls = <<>> /\ unit = "in")
    /\ [][\A a \in BOOLEAN :
            lastOp'.op = "mount" /\ Reload(a) =>
                /\ (\A k \in Keys : storage[k] = Absent) =>
                       presets' = BuiltIns /\ savedRolls' = <<>> /\ unit' = "in"
                /\ a /\ storage["presets"].st = "ok" =>
                       presets' = storage["presets"].val[1]]_vars

\* A restart has read back a stored list of five presets
C26_Witness ==
    /\ lastOp = Op("mount", 1)
    /\ storage["presets"].st = "ok"
    /\ presets = storage["presets"].val[1]
    /\ Len(presets) = 5
    /\ presets[1].name = <<"P">>

\* ------------------------------------------------------------------------
\* Properties of the default names (SpecHistory)
\* ------------------------------------------------------------------------
\* C30: no two entries of the history carry the same generated name
\* "Roll k".
C30_DefaultNamesUnique ==
    \A j, k \in 1..Len(savedRolls) :
        (j # k /\ \E m \in 1..9 : savedRolls[j].name = DefaultName(m))
            => savedRolls[j].name # savedRolls[k].name

====
